---- MODULE Spec2Model ----
(***************************************************************************)
(* PLUSImpulseSolver::solve (Simbody/src/PLUSImpulseSolver.cpp) as a state *)
(* machine.                                                                *)
(*                                                                         *)
(* Reals are held on a fixed-point grid: a velocity or an impulse is an    *)
(* integer count of hundredths, the matrix A, the diagonal D and the       *)
(* friction coefficients are integers.  A product of two gridded values is *)
(* a count of 1/10000.  Fractions (the interval step length) are records   *)
(* [n, d] with d > 0.  m_convergenceTol and SignificantReal are positive   *)
(* and lie below the grid resolution.  A run whose arithmetic leaves the   *)
(* grid is not followed any further (pc = "offgrid").                      *)
(* Multiplier and active indices are 1-based; 0 is the invalid index.      *)
(***************************************************************************)
EXTENDS Integers, Sequences, FiniteSets, TLC

\* ------------------------------------------------------------------ bounds
MaxIntervals == 3
MaxIts == 4
MaxItersCfg == 2
StepMax == 2
MatMax == 4

\* ------------------------------------------------------- solver settings
\* rolling/sliding threshold: one grid unit (0.01)
m_maxRollingTangVel == 1

\* m_cosMaxSlidingDirChange = cos(45 deg): its square is CosSqNum/CosSqDen and
\* cos*sin = CosSinNum/CosSinDen
CosSqNum == 1

CosSqDen == 2

\* line search (solve): MinFrac = 0.01, SearchReduceFac = 0.5; the trial
\* fraction is held as a count of 1/LSDen
LSDen == 64

\* ------------------------------------------------------- scalar utilities
\* quiet NaN: a marker outside the range of every gridded value
NaN == -1000000

Abs(x) == IF x < 0 THEN -x ELSE x

Min(a, b) == IF a < b THEN a ELSE b

Max(a, b) == IF a > b THEN a ELSE b

sign(x) == IF x > 0 THEN 1 ELSE IF x < 0 THEN -1 ELSE 0

clamp(lo, x, hi) == IF x < lo THEN lo ELSE IF x > hi THEN hi ELSE x

square(x) == x * x

RECURSIVE SumSeq(_)
SumSeq(s) == IF s = <<>> THEN 0 ELSE Head(s) + SumSeq(Tail(s))

\* floor of the square root, and whether the root is on the grid
Isqrt(n) == CHOOSE r \in 0..(n + 1) : r * r <= n /\ (r + 1) * (r + 1) > n

IsSquare(n) == Isqrt(n) * Isqrt(n) = n

\* n/d is on the grid
Divides(d, n) == d # 0 /\ n % Abs(d) = 0

ExactDiv(n, d) == IF d < 0 THEN (-n) \div (-d) ELSE n \div d

ZeroVec(n) == [i \in 1..n |-> 0]

\* v.resize(n) alone: the old entries stay
resizeOnly(v, n) == [i \in 1..n |-> IF i <= Len(v) THEN v[i] ELSE 0]

\* v.resize(n); v.setToZero()
resizeToZero(v, n) == ZeroVec(n)

\* tolerances below the grid resolution: x > tol, x < tol, x <= tol
AboveTol(x) == x > 0

BelowTol(x) == x <= 0

WithinTol(x) == x <= 0

\* ------------------------------------------------- fractions [n, d], d > 0
Frac(n, d) == [n |-> n, d |-> d]

FracLess(p, q) == p.n * q.d < q.n * p.d

FracMin(p, q) == IF FracLess(q, p) THEN q ELSE p

\* ---------------------------------------------------- sparse/active algebra
multRowTimesActiveCol(A, row, active, colActive) ==
    SumSeq([ax \in 1..Len(active) |-> A[row][active[ax]] * colActive[ax]])

\* the column read at the packed position nz instead of at nonZero[nz]
multRowTimesSparseColPacked(A, row, nonZero, colFull) ==
    SumSeq([nz \in 1..Len(nonZero) |-> A[row][nonZero[nz]] * colFull[nz]])

multRowTimesSparseCol(A, row, nonZero, colFull) ==
    SumSeq([nz \in 1..Len(nonZero) |-> A[row][nonZero[nz]] * colFull[nonZero[nz]]])

\* the active column added at its active, not its multiplier, positions
addInActiveColUnmapped(active, colActive, colFull) ==
    [i \in 1..Len(colFull) |->
        colFull[i] + (IF i <= Len(colActive) THEN colActive[i] ELSE 0)]

addInActiveCol(active, colActive, colFull) ==
    [i \in 1..Len(colFull) |->
        colFull[i] + SumSeq([ax \in 1..Len(active) |->
                                IF active[ax] = i THEN colActive[ax] ELSE 0])]

\* the map filled in without first being invalidated: a multiplier that is
\* not active keeps a valid-looking entry
fillMult2ActiveNoInvalid(active, m) ==
    [i \in 1..m |->
        IF \E ax \in 1..Len(active) : active[ax] = i
        THEN CHOOSE ax \in 1..Len(active) :
                 active[ax] = i /\ \A bx \in (ax + 1)..Len(active) : active[bx] # i
        ELSE 1]

fillMult2Active(active, m) ==
    [i \in 1..m |->
        IF \E ax \in 1..Len(active) : active[ax] = i
        THEN CHOOSE ax \in 1..Len(active) :
                 active[ax] = i /\ \A bx \in (ax + 1)..Len(active) : active[bx] # i
        ELSE 0]

\* the last element copied over the erased one, the array not shortened
eraseFastKeepLast(arr, ix) ==
    [i \in 1..Len(arr) |-> IF i = ix THEN arr[Len(arr)] ELSE arr[i]]

\* Array_::eraseFast: the last element takes the place of the erased one
eraseFast(arr, ix) ==
    [i \in 1..(Len(arr) - 1) |-> IF i = ix THEN arr[Len(arr)] ELSE arr[i]]

hasFriction(rt) == Len(rt.m_Fk) > 0

\* --------------------------------------------------------- classification
\* Sliding already at the threshold (>= for >)
classifyOneAtThreshold(rt, verrLeft) ==
    LET cc == IF rt.m_type = "Observing" THEN "UniOff"
              ELSE IF rt.m_type = "Known" THEN "UniKnown" ELSE "UniActive"
    IN IF rt.m_type = "Observing" \/ ~hasFriction(rt)
       THEN [rt EXCEPT !.m_contactCond = cc, !.m_frictionCond = "FricOff",
                       !.m_slipVel = <<NaN, NaN>>, !.m_slipMag = NaN]
       ELSE LET vx == verrLeft[rt.m_Fk[1]]
                vy == verrLeft[rt.m_Fk[2]]
                tsq == vx * vx + vy * vy
            IN [rt EXCEPT !.m_contactCond = cc,
                          !.m_slipVel = <<vx, vy>>,
                          !.m_slipMag = Isqrt(tsq),
                          !.m_frictionCond = IF tsq >= square(m_maxRollingTangVel)
                                             THEN "Sliding" ELSE "Rolling"]

classifyOne(rt, verrLeft) ==
    LET cc == IF rt.m_type = "Observing" THEN "UniOff"
              ELSE IF rt.m_type = "Known" THEN "UniKnown" ELSE "UniActive"
    IN IF rt.m_type = "Observing" \/ ~hasFriction(rt)
       THEN [rt EXCEPT !.m_contactCond = cc, !.m_frictionCond = "FricOff",
                       !.m_slipVel = <<NaN, NaN>>, !.m_slipMag = NaN]
       ELSE LET vx == verrLeft[rt.m_Fk[1]]
                vy == verrLeft[rt.m_Fk[2]]
                tsq == vx * vx + vy * vy
            IN [rt EXCEPT !.m_contactCond = cc,
                          !.m_slipVel = <<vx, vy>>,
                          !.m_slipMag = Isqrt(tsq),
                          !.m_frictionCond = IF tsq > square(m_maxRollingTangVel)
                                             THEN "Sliding" ELSE "Rolling"]

classifyFrictionals(uc, verrLeft) ==
    [k \in 1..Len(uc) |-> classifyOne(uc[k], verrLeft)]

\* ----------------------------------------------------------- Newton setup
\* initializeNewton: the Jacobian starts as the active block of A (held
\* doubled, see updateJacobianForSliding)
initJac(A, active) ==
    [ai \in 1..Len(active) |-> [aj \in 1..Len(active) |-> 2 * A[active[ai]][active[aj]]]]

initRhs(active, verrLeft, verrExpand) ==
    [aj \in 1..Len(active) |-> verrLeft[active[aj]] - verrExpand[active[aj]]]

\* initial guess: previous projected values, but every active normal restarts
\* at .01*sign(rhs), which is one grid unit
initPi(active, m2a, rhs, piG, uc) ==
    [aj \in 1..Len(active) |->
        IF \E k \in 1..Len(uc) : uc[k].m_contactCond = "UniActive" /\ m2a[uc[k].m_Nk] = aj
        THEN sign(rhs[aj])
        ELSE piG[active[aj]]]

\* contacts whose friction rows are replaced by the sliding equations
slidingRows(rt) ==
    /\ rt.m_contactCond # "UniOff"
    /\ hasFriction(rt)
    /\ rt.m_frictionCond \in {"Sliding", "Impending"}

\* the record of an Impending contact rebuilt around the new direction, its
\* friction coefficient not carried over
updateDirectionsRebuild(A, uc, active, verrExpand, piActive) ==
    [k \in 1..Len(uc) |->
        IF slidingRows(uc[k]) /\ uc[k].m_frictionCond = "Impending"
        THEN LET mx == uc[k].m_Fk[1]
                 my == uc[k].m_Fk[2]
                 dx == multRowTimesActiveCol(A, mx, active, piActive) + verrExpand[mx]
                 dy == multRowTimesActiveCol(A, my, active, piActive) + verrExpand[my]
             IN [uc[k] EXCEPT !.m_slipVel = <<dx, dy>>,
                              !.m_slipMag = Isqrt(dx * dx + dy * dy),
                              !.m_effMu = 0]
        ELSE uc[k]]

\* the slip direction recomputed for Sliding contacts as well
updateDirectionsSlidingToo(A, uc, active, verrExpand, piActive) ==
    [k \in 1..Len(uc) |->
        IF slidingRows(uc[k])
        THEN LET mx == uc[k].m_Fk[1]
                 my == uc[k].m_Fk[2]
                 dx == multRowTimesActiveCol(A, mx, active, piActive) + verrExpand[mx]
                 dy == multRowTimesActiveCol(A, my, active, piActive) + verrExpand[my]
             IN [uc[k] EXCEPT !.m_slipVel = <<dx, dy>>,
                              !.m_slipMag = Isqrt(dx * dx + dy * dy)]
        ELSE uc[k]]

\* updateDirectionsAndCalcCurrentError, first half: an Impending contact gets
\* its slip direction from the current impulse
updateDirections(A, uc, active, verrExpand, piActive) ==
    [k \in 1..Len(uc) |->
        IF slidingRows(uc[k]) /\ uc[k].m_frictionCond = "Impending"
        THEN LET mx == uc[k].m_Fk[1]
                 my == uc[k].m_Fk[2]
                 dx == multRowTimesActiveCol(A, mx, active, piActive) + verrExpand[mx]
                 dy == multRowTimesActiveCol(A, my, active, piActive) + verrExpand[my]
             IN [uc[k] EXCEPT !.m_slipVel = <<dx, dy>>,
                              !.m_slipMag = Isqrt(dx * dx + dy * dy)]
        ELSE uc[k]]

\* every slip magnitude the sliding equations use is on the grid
slipOnGrid(uc) ==
    \A k \in 1..Len(uc) :
        slidingRows(uc[k]) =>
            IsSquare(square(uc[k].m_slipVel[1]) + square(uc[k].m_slipVel[2]))

\* the contact, if any, whose sliding equation occupies active row ai
rowOwner(uc, m2a, ai) ==
    { k \in 1..Len(uc) : slidingRows(uc[k]) /\
                         (m2a[uc[k].m_Fk[1]] = ai \/ m2a[uc[k].m_Fk[2]] = ai) }

\* the residual with the right-hand side added instead of subtracted
calcCurrentErrorPlusRhs(A, uc, active, m2a, rhs, piEL, piActive) ==
    [ai \in 1..Len(active) |->
        multRowTimesActiveCol(A, active[ai], active, piActive) + rhs[ai]]

\* second half: A*pi - rhs on ordinary rows (hundredths), the sliding
\* equation on friction rows (1/10000)
calcCurrentError(A, uc, active, m2a, rhs, piEL, piActive) ==
    [ai \in 1..Len(active) |->
        IF rowOwner(uc, m2a, ai) = {}
        THEN multRowTimesActiveCol(A, active[ai], active, piActive) - rhs[ai]
        ELSE LET rt == uc[CHOOSE k \in rowOwner(uc, m2a, ai) :
                            \A j \in rowOwner(uc, m2a, ai) : j <= k]
                 i == IF m2a[rt.m_Fk[1]] = ai THEN 1 ELSE 2
                 pizE == piEL[rt.m_Nk]
                 minz == IF rt.m_contactCond = "UniActive"
                         THEN Min(piActive[m2a[rt.m_Nk]], 0) ELSE 0
             IN rt.m_slipMag * piActive[ai] + rt.m_effMu * rt.m_slipVel[i] * pizE
                + rt.m_effMu * rt.m_slipVel[i] * minz]

\* Vector::norm() squared, in units of 1e-8: ordinary rows are hundredths,
\* sliding rows are 1/10000
normSq(uc, m2a, err) ==
    SumSeq([ai \in 1..Len(err) |->
               IF rowOwner(uc, m2a, ai) = {} THEN square(100 * err[ai])
               ELSE square(err[ai])])

\* ------------------------------------------------------------- Jacobian
\* twice dsoftmin0(z, eps) and softmin0(z, eps) for eps below the grid
\* resolution: the derivative is 1, 1/2, 0 for z < 0, z = 0, z > 0
dsoftmin0x2(z) == IF z < 0 THEN 2 ELSE IF z = 0 THEN 1 ELSE 0

softmin0(z) == Min(z, 0)

\* numerator of dhat . (Axi, Ayi) * p over dnorm
dhatDot(rt, Axi, Ayi, p) == (rt.m_slipVel[1] * Axi + rt.m_slipVel[2] * Ayi) * p

\* one entry of the (doubled) Jacobian of a sliding row; i = 1 for x, 2 for y
jacEntry(A, rt, active, m2a, piEL, piActive, i, aj) ==
    LET mx == rt.m_Fk[1]
        my == rt.m_Fk[2]
        mz == rt.m_Nk
        ar == m2a[rt.m_Fk[i]]
        isAct == rt.m_contactCond = "UniActive"
        az == IF isAct THEN m2a[mz] ELSE 0
        piz == IF isAct THEN piActive[az] ELSE 0
        dn == rt.m_slipMag
        diag == IF aj = ar THEN 2 * dn ELSE 0
        dz == IF isAct /\ aj = az THEN rt.m_effMu * rt.m_slipVel[i] * dsoftmin0x2(piz)
              ELSE 0
    IN IF rt.m_frictionCond = "Impending"
       THEN LET mi == active[aj]
                sp == IF dn > 0
                      THEN ExactDiv(dhatDot(rt, A[mx][mi], A[my][mi], piActive[ar]), dn)
                      ELSE 0
                nrm == piEL[mz] + (IF isAct THEN softmin0(piz) ELSE 0)
            IN 2 * (sp + rt.m_effMu * A[rt.m_Fk[i]][mi] * nrm) + diag + dz
       ELSE diag + dz

\* the divisions by dnorm in the Impending rows stay on the grid
jacOnGrid(A, uc, active, m2a, piActive) ==
    \A k \in 1..Len(uc) :
        (slidingRows(uc[k]) /\ uc[k].m_frictionCond = "Impending" /\ uc[k].m_slipMag > 0) =>
            \A aj \in 1..Len(active) : \A i \in 1..2 :
                Divides(uc[k].m_slipMag,
                        dhatDot(uc[k], A[uc[k].m_Fk[1]][active[aj]],
                                A[uc[k].m_Fk[2]][active[aj]], piActive[m2a[uc[k].m_Fk[i]]]))

updateJacobianForSliding(A, uc, active, m2a, piEL, piActive, Jac) ==
    [ai \in 1..Len(active) |->
        IF rowOwner(uc, m2a, ai) = {}
        THEN Jac[ai]
        ELSE LET k == CHOOSE k \in rowOwner(uc, m2a, ai) :
                          \A j \in rowOwner(uc, m2a, ai) : j <= k
                 i == IF m2a[uc[k].m_Fk[1]] = ai THEN 1 ELSE 2
             IN [aj \in 1..Len(active) |->
                    jacEntry(A, uc[k], active, m2a, piEL, piActive, i, aj)]]

\* ------------------------------------------------- least-squares solve
RECURSIVE setToSeq(_)
setToSeq(S) ==
    IF S = {} THEN <<>>
    ELSE LET lo == CHOOSE x \in S : \A y \in S : x <= y
         IN <<lo>> \o setToSeq(S \ {lo})

minor(M, j) ==
    [r \in 1..(Len(M) - 1) |->
        [c \in 1..(Len(M) - 1) |-> M[r + 1][IF c < j THEN c ELSE c + 1]]]

RECURSIVE det(_)
det(M) ==
    IF Len(M) = 0 THEN 1
    ELSE IF Len(M) = 1 THEN M[1][1]
    ELSE SumSeq([j \in 1..Len(M) |->
                    IF M[1][j] = 0 THEN 0
                    ELSE (IF j % 2 = 1 THEN 1 ELSE -1) * M[1][j] * det(minor(M, j))])

nzRows(J) == { r \in 1..Len(J) : \E c \in 1..Len(J) : J[r][c] # 0 }

nzCols(J) == { c \in 1..Len(J) : \E r \in 1..Len(J) : J[r][c] # 0 }

\* the block of J on its nonzero rows and columns, with column i replaced by
\* the right-hand side b (i = 0: nothing replaced)
lsBlock(J, b, i) ==
    LET R == setToSeq(nzRows(J))
        C == setToSeq(nzCols(J))
    IN [r \in 1..Len(R) |-> [c \in 1..Len(C) |-> IF c = i THEN b[R[r]] ELSE J[R[r]][C[c]]]]

\* FactorQTZ(J).solve(b, x): the minimum-norm least-squares solution.  A zero
\* row constrains nothing and a zero column gets x = 0; what is left must be
\* square, regular and solved on the grid.
lsOnGrid(J, b) ==
    /\ Cardinality(nzRows(J)) = Cardinality(nzCols(J))
    /\ det(lsBlock(J, b, 0)) # 0
    /\ \A i \in 1..Cardinality(nzCols(J)) :
           Divides(det(lsBlock(J, b, 0)), det(lsBlock(J, b, i)))

FactorQTZsolve(J, b) ==
    LET C == setToSeq(nzCols(J))
        d0 == det(lsBlock(J, b, 0))
    IN [c \in 1..Len(J) |->
           IF \E i \in 1..Len(C) : C[i] = c
           THEN ExactDiv(det(lsBlock(J, b, CHOOSE i \in 1..Len(C) : C[i] = c)), d0)
           ELSE 0]

\* ----------------------------------------------------------- line search
\* giving up already when the halved fraction is below MinFrac
lineSearchStuckBelowMinFrac(f) == f * 100 < LSDen

\* line 328: frac*SearchReduceFac < MinFrac for the halved fraction f/LSDen
lineSearchStuck(f) == f * 100 < 2 * LSDen

\* ------------------------------------------------------------ projection
inUncond(unc, mx) ==
    \E fx \in 1..Len(unc) : \E i \in 1..Len(unc[fx]) : unc[fx][i] = mx

\* the sign test of the normal projection turned around
projNormalFlipped(rt, m2a, piActive) ==
    IF rt.m_contactCond \in {"UniOff", "UniKnown"} THEN 0
    ELSE IF rt.m_sign * piActive[m2a[rt.m_Nk]] > 0 THEN piActive[m2a[rt.m_Nk]] ELSE 0

\* the projected normal impulse of a contact: zero unless it pushes
projNormal(rt, m2a, piActive) ==
    IF rt.m_contactCond \in {"UniOff", "UniKnown"} THEN 0
    ELSE IF rt.m_sign * piActive[m2a[rt.m_Nk]] < 0 THEN piActive[m2a[rt.m_Nk]] ELSE 0

\* contacts whose friction impulse is copied (and, if Rolling, limited)
fricProjected(rt) == rt.m_contactCond # "UniOff" /\ hasFriction(rt)

fricTsq(rt, m2a, piActive) ==
    square(piActive[m2a[rt.m_Fk[1]]]) + square(piActive[m2a[rt.m_Fk[2]]])

\* mu*nmag with nmag = |piGuess[Nk] + piELeft[Nk]|
fricLimit(rt, m2a, piEL, piActive) ==
    rt.m_effMu * Abs(projNormal(rt, m2a, piActive) + piEL[rt.m_Nk])

\* a Rolling contact whose friction impulse lies outside the cone
fricViolated(rt, m2a, piEL, piActive) ==
    /\ fricProjected(rt)
    /\ rt.m_frictionCond = "Rolling"
    /\ fricTsq(rt, m2a, piActive) > square(fricLimit(rt, m2a, piEL, piActive))

\* the scaling mu*nmag/tmag stays on the grid
projOnGrid(uc, m2a, piEL, piActive) ==
    \A k \in 1..Len(uc) :
        fricViolated(uc[k], m2a, piEL, piActive) =>
            /\ IsSquare(fricTsq(uc[k], m2a, piActive))
            /\ \A i \in 1..2 :
                   Divides(Isqrt(fricTsq(uc[k], m2a, piActive)),
                           fricLimit(uc[k], m2a, piEL, piActive)
                               * piActive[m2a[uc[k].m_Fk[i]]])

\* lines 353-447: piGuess after unpacking and projecting every constraint
projectGuess(unc, bnd, uc, m2a, piEL, piActive, piG) ==
    [mx \in 1..Len(piG) |->
        IF inUncond(unc, mx) THEN piActive[m2a[mx]]
        ELSE IF \E k \in 1..Len(bnd) : bnd[k].m_ix = mx /\ m2a[mx] # 0
        THEN LET rt == bnd[CHOOSE k \in 1..Len(bnd) : bnd[k].m_ix = mx]
             IN clamp(rt.m_lb, piActive[m2a[mx]], rt.m_ub)
        ELSE IF \E k \in 1..Len(uc) : uc[k].m_Nk = mx
        THEN projNormal(uc[CHOOSE k \in 1..Len(uc) : uc[k].m_Nk = mx], m2a, piActive)
        ELSE IF \E k \in 1..Len(uc) : fricProjected(uc[k]) /\
                                     \E i \in 1..2 : uc[k].m_Fk[i] = mx
        THEN LET rt == uc[CHOOSE k \in 1..Len(uc) : fricProjected(uc[k]) /\
                                     \E i \in 1..2 : uc[k].m_Fk[i] = mx]
             IN IF fricViolated(rt, m2a, piEL, piActive)
                THEN ExactDiv(fricLimit(rt, m2a, piEL, piActive) * piActive[m2a[mx]],
                              Isqrt(fricTsq(rt, m2a, piActive)))
                ELSE piActive[m2a[mx]]
        ELSE piG[mx]]

boundedErr(bnd, m2a, piActive) ==
    [k \in 1..Len(bnd) |->
        IF m2a[bnd[k].m_ix] = 0 THEN 0
        ELSE Abs(piActive[m2a[bnd[k].m_ix]]
                 - clamp(bnd[k].m_lb, piActive[m2a[bnd[k].m_ix]], bnd[k].m_ub))]

uniNormalErr(uc, m2a, piActive) ==
    [k \in 1..Len(uc) |->
        IF uc[k].m_contactCond \in {"UniOff", "UniKnown"} THEN 0
        ELSE Abs(piActive[m2a[uc[k].m_Nk]] - projNormal(uc[k], m2a, piActive))]

fricErr(uc, m2a, piEL, piActive) ==
    [k \in 1..Len(uc) |->
        IF fricViolated(uc[k], m2a, piEL, piActive)
        THEN Isqrt(fricTsq(uc[k], m2a, piActive)) - fricLimit(uc[k], m2a, piEL, piActive)
        ELSE 0]

\* "if (err > worstValue) worst = k, worstValue = err" over k, from (0, 0):
\* the first index holding the largest positive error, else the first slot
worstValue(errs) ==
    IF \E k \in 1..Len(errs) : errs[k] > 0
    THEN CHOOSE v \in { errs[k] : k \in 1..Len(errs) } : \A j \in 1..Len(errs) : errs[j] <= v
    ELSE 0

worstIndex(errs) ==
    IF worstValue(errs) > 0
    THEN CHOOSE k \in 1..Len(errs) :
             errs[k] = worstValue(errs) /\ \A j \in 1..(k - 1) : errs[j] < worstValue(errs)
    ELSE 1

\* the worst normal released even while its friction is Rolling
releasesNormalEvenRolling(uc, nErr, fErr) ==
    worstValue(nErr) > worstValue(fErr)

\* lines 464-471: the worst normal is released if it is the worst offender
\* and its contact has no friction, or friction that is not Rolling
releasesNormal(uc, nErr, fErr) ==
    /\ worstValue(nErr) > worstValue(fErr)
    /\ \/ ~hasFriction(uc[worstIndex(nErr)])
       \/ uc[worstIndex(nErr)].m_frictionCond # "Rolling"

\* the three eraseFast calls without sort3
eraseThreeUnsorted(arr, a, b, c) == eraseFast(eraseFast(eraseFast(arr, c), b), a)

\* sort3 then three eraseFast calls, highest index first
eraseThreeFast(arr, a, b, c) ==
    LET lo == Min(a, Min(b, c))
        hi == Max(a, Max(b, c))
        mid == a + b + c - lo - hi
    IN eraseFast(eraseFast(eraseFast(arr, hi), mid), lo)

\* --------------------------------------------------------- step lengths
\* calcSlidingStepLengthToOrigin(A, B, Q): the step as a fraction and Q as a
\* numerator vector over the same denominator
stepToOrigin(As, Bs) ==
    LET vx == Bs[1] - As[1]
        vy == Bs[2] - As[2]
        ABsqr == vx * vx + vy * vy
        dt == (0 - As[1]) * vx + (0 - As[2]) * vy
        num == clamp(0, dt, ABsqr)
    IN IF square(As[1]) + square(As[2]) < square(m_maxRollingTangVel)
       THEN [s |-> Frac(1, 1), Q |-> Bs]
       ELSE IF BelowTol(ABsqr)
       THEN [s |-> Frac(1, 1), Q |-> Bs]
       ELSE [s |-> Frac(num, ABsqr),
             Q |-> <<As[1] * ABsqr + num * vx, As[2] * ABsqr + num * vy>>]

\* the Vec3 overload without the clamp
stepToOrigin3Unclamped(As, Bs) ==
    LET v == [i \in 1..3 |-> Bs[i] - As[i]]
        ABsqr == SumSeq([i \in 1..3 |-> v[i] * v[i]])
        dt == SumSeq([i \in 1..3 |-> (0 - As[i]) * v[i]])
    IN IF SumSeq([i \in 1..3 |-> square(As[i])]) < square(m_maxRollingTangVel)
       THEN [s |-> Frac(1, 1), Q |-> Bs]
       ELSE IF BelowTol(ABsqr)
       THEN [s |-> Frac(1, 1), Q |-> Bs]
       ELSE [s |-> Frac(dt, ABsqr),
             Q |-> [i \in 1..3 |-> As[i] * ABsqr + dt * v[i]]]

\* calcSlidingStepLengthToOrigin(A, B, Q), the Vec3 overload
stepToOrigin3(As, Bs) ==
    LET v == [i \in 1..3 |-> Bs[i] - As[i]]
        ABsqr == SumSeq([i \in 1..3 |-> v[i] * v[i]])
        dt == SumSeq([i \in 1..3 |-> (0 - As[i]) * v[i]])
        num == clamp(0, dt, ABsqr)
    IN IF SumSeq([i \in 1..3 |-> square(As[i])]) < square(m_maxRollingTangVel)
       THEN [s |-> Frac(1, 1), Q |-> Bs]
       ELSE IF BelowTol(ABsqr)
       THEN [s |-> Frac(1, 1), Q |-> Bs]
       ELSE [s |-> Frac(num, ABsqr),
             Q |-> [i \in 1..3 |-> As[i] * ABsqr + num * v[i]]]

\* sqrt(c^2 (1 - c^2)) * CosSqDen for c = m_cosMaxSlidingDirChange
CosSinNum == 1

\* the leading coefficient t1 of calcSlidingStepLengthToMaxChange, times
\* CosSqDen, before it is inverted
maxChangeDen(As, Bs) ==
    LET vx == Bs[1] - As[1]
        vy == Bs[2] - As[2]
        aa == square(As[1]) + square(As[2])
        vv == vx * vx + vy * vy
        av == As[1] * vx + As[2] * vy
    IN CosSqNum * aa * vv - CosSqDen * av * av

\* calcSlidingStepLengthToMaxChange(A, B) when t1 # 0
stepToMaxChange(As, Bs) ==
    LET vx == Bs[1] - As[1]
        vy == Bs[2] - As[2]
        aa == square(As[1]) + square(As[2])
        av == As[1] * vx + As[2] * vy
        t3 == CosSinNum * Abs(As[1] * vy - As[2] * vx)
        den == maxChangeDen(As, Bs)
        sg == IF den < 0 THEN -1 ELSE 1
        sol1 == Frac(sg * (0 - aa) * ((CosSqNum - CosSqDen) * av + t3), sg * den)
        sol2 == Frac(sg * (0 - aa) * ((CosSqNum - CosSqDen) * av - t3), sg * den)
    IN IF sol1.n < 0 THEN sol2
       ELSE IF sol2.n < 0 THEN sol1
       ELSE IF FracLess(sol2, sol1) THEN sol2 ELSE sol1

\* what the division by a vanishing t1 can hand back: a NaN (std::min then
\* keeps frac), or a finite value of either sign made of rounding noise
NaNStep == Frac(0, 0)

DegenerateStep == { NaNStep, Frac(-3, 2), Frac(1, 2) }

\* the restriction one contact puts on the interval (lines 523-575); noise is
\* the outcome used if the max-change formula degenerates
slidingRestriction(A, rt, active, verrExpand, piActive, noise) ==
    LET dbx == multRowTimesActiveCol(A, rt.m_Fk[1], active, piActive) + verrExpand[rt.m_Fk[1]]
        dby == multRowTimesActiveCol(A, rt.m_Fk[2], active, piActive) + verrExpand[rt.m_Fk[2]]
        bend == <<rt.m_slipVel[1] - dbx, rt.m_slipVel[2] - dby>>
        bsq == square(bend[1]) + square(bend[2])
        ssq == square(rt.m_slipMag)
        dt == rt.m_slipVel[1] * bend[1] + rt.m_slipVel[2] * bend[2]
        so == stepToOrigin(rt.m_slipVel, bend)
    IN IF rt.m_frictionCond # "Sliding" THEN NaNStep
       ELSE IF bsq <= square(m_maxRollingTangVel) THEN NaNStep
       ELSE IF dt >= 0 /\ CosSqDen * dt * dt >= CosSqNum * ssq * bsq THEN NaNStep
       ELSE IF square(so.Q[1]) + square(so.Q[2])
                   <= square(m_maxRollingTangVel) * square(so.s.d)
       THEN so.s
       ELSE IF maxChangeDen(rt.m_slipVel, bend) = 0 THEN noise
       ELSE stepToMaxChange(rt.m_slipVel, bend)

\* the max-change formula is evaluated with a vanishing leading coefficient
slidingDegenerate(A, rt, active, verrExpand, piActive) ==
    /\ slidingRestriction(A, rt, active, verrExpand, piActive, Frac(7, 7)) = Frac(7, 7)

\* frac = 1, then std::min with each restriction in turn (a NaN is skipped)
RECURSIVE minOverSteps(_, _)
minOverSteps(fr, steps) ==
    IF steps = <<>> THEN fr
    ELSE minOverSteps(IF Head(steps).d = 0 THEN fr ELSE FracMin(fr, Head(steps)),
                      Tail(steps))

\* frac * x for a gridded x
fracTimes(fr, x) == ExactDiv(fr.n * x, fr.d)

fracOnGrid(fr, xs) == \A i \in 1..Len(xs) : Divides(fr.d, fr.n * xs[i])

\* ------------------------------------------------------------- scenarios
Contact(type, sgn, Nk, Fk, mu) ==
    [m_type |-> type, m_sign |-> sgn, m_Nk |-> Nk, m_Fk |-> Fk, m_effMu |-> mu]

Problem(A0, part, expd, piE, v, unc, ucs, bnd) ==
    [A |-> A0, D |-> ZeroVec(Len(A0)), participating |-> part, expanding |-> expd,
     piExpand |-> piE, verr |-> v, unconditional |-> unc, uniContact |-> ucs,
     bounded |-> bnd]

\* one unconditional constraint, m = 1
ScUncond1 ==
    { Problem(<< <<a>> >>, <<1>>, <<>>, <<0>>, <<v>>, << <<1>> >>, <<>>, <<>>) :
        a \in {1, 2}, v \in {-4, -2, 0, 2, 4} }

\* one unconditional constraint with two multipliers, m = 2
ScUncond2 ==
    { Problem(<< <<2, 1>>, <<1, 1>> >>, <<1, 2>>, <<>>, <<0, 0>>, <<v1, v2>>,
              << <<1, 2>> >>, <<>>, <<>>) :
        v1 \in {-2, 0, 3}, v2 \in {-1, 0, 2} }

\* one frictionless unilateral contact, m = 1
ScUni1 ==
    { Problem(<< <<a>> >>, IF t = "Participating" THEN <<1>> ELSE <<>>, <<>>, <<0>>,
              <<v>>, <<>>, << Contact(t, sg, 1, <<>>, 0) >>, <<>>) :
        a \in {1, 2}, v \in {-4, -2, 0, 2, 4}, sg \in {1, -1},
        t \in {"Participating", "Known", "Observing"} }

\* one bounded scalar constraint, m = 1
ScBounded1 ==
    { Problem(<< <<1>> >>, <<1>>, <<>>, <<0>>, <<v>>, <<>>, <<>>,
              << [m_ix |-> 1, m_lb |-> -2, m_ub |-> 2] >>) :
        v \in {-3, -1, 0, 2, 3} }

Fric3A ==
    { << <<1, 0, 0>>, <<0, 1, 0>>, <<0, 0, 1>> >>,
      << <<1, 0, 0>>, <<0, 1, -1>>, <<0, -1, 2>> >>,
      << <<2, 0, -1>>, <<0, 1, 0>>, <<-1, 0, 1>> >>,
      << <<3, 0, 2>>, <<0, 3, 1>>, <<2, 1, 3>> >> }

\* one frictional unilateral contact: friction multipliers 1,2, normal 3
ScFric3 ==
    { Problem(A0, IF t = "Participating" THEN <<1, 2, 3>>
                  ELSE IF t = "Known" THEN <<1, 2>> ELSE <<>>,
              IF e = 0 THEN <<>> ELSE <<3>>, <<0, 0, e>>, <<vx, 0, vz>>, <<>>,
              << Contact(t, 1, 3, <<1, 2>>, mu) >>, <<>>) :
        A0 \in Fric3A, t \in {"Participating", "Known", "Observing"},
        e \in {0, -2}, vx \in {-2, 0, 1, 2, 4}, vz \in {-4, -2, 0, 2}, mu \in {1, 2} }

\* a Participating frictional contact (1,2,3) coupled to an unconditional
\* constraint (4), with an expansion impulse on the normal
ScFricUncond ==
    { Problem(<< <<1, 0, -1, 1>>, <<0, 3, 0, 0>>, <<-1, 0, 3, 0>>, <<1, 0, 0, 2>> >>,
              IF t = "Observing" THEN <<4>> ELSE <<1, 2, 3, 4>>, <<3>>,
              <<0, 0, -2, 0>>, <<vx, 0, vz, 2>>, << <<4>> >>,
              << Contact(t, 1, 3, <<1, 2>>, 2) >>, <<>>) :
        vx \in {-4, -1, 0}, vz \in {0, 1}, t \in {"Participating", "Observing"} }

\* a frictional contact (1,2; normal 3), Known or Observing, coupled to a
\* bounded scalar constraint (4)
ScFricBounded ==
    { Problem(<< <<1, -1, 0, 0>>, <<-1, 4, 0, -1>>, <<0, 0, 2, 0>>, <<0, -1, 0, 1>> >>,
              IF t = "Observing" THEN <<4>> ELSE <<1, 2, 4>>, <<3>>,
              <<0, 0, -4, 0>>, <<-2, 0, 1, v4>>, <<>>,
              << Contact(t, 1, 3, <<1, 2>>, 1) >>,
              << [m_ix |-> 4, m_lb |-> -4, m_ub |-> 4] >>) :
        v4 \in {0, 4, 6}, t \in {"Known", "Observing"} }

\* a frictionless Participating contact (1) ahead of an unconditional
\* constraint with two multipliers (2,3)
ScUniUncond ==
    { Problem(<< <<1, 0, 0>>, <<0, 2, 1>>, <<0, 1, 1>> >>, <<1, 2, 3>>, <<>>,
              <<0, 0, 0>>, <<v1, v2, v3>>, << <<2, 3>> >>,
              << Contact("Participating", 1, 1, <<>>, 0) >>, <<>>) :
        v1 \in {-2, 2}, v2 \in {0, 3}, v3 \in {-1, 2} }

Scenarios ==
    ScUncond1 \cup ScUncond2 \cup ScUni1 \cup ScBounded1 \cup ScFric3
        \cup ScFricUncond \cup ScFricBounded \cup ScUniUncond

\* runtime fields a contact record may carry over from an earlier use
StaleRT ==
    { [m_contactCond |-> "UniOff", m_frictionCond |-> "FricOff",
       m_slipVel |-> <<NaN, NaN>>, m_slipMag |-> NaN],
      [m_contactCond |-> "UniActive", m_frictionCond |-> "Impending",
       m_slipVel |-> <<3, 0>>, m_slipMag |-> 3] }

WithRT(c, rt) ==
    [m_type |-> c.m_type, m_sign |-> c.m_sign, m_Nk |-> c.m_Nk, m_Fk |-> c.m_Fk,
     m_effMu |-> c.m_effMu, m_contactCond |-> rt.m_contactCond,
     m_frictionCond |-> rt.m_frictionCond, m_slipVel |-> rt.m_slipVel,
     m_slipMag |-> rt.m_slipMag]

\* ----------------------------------------------------------------- state
VARIABLES
    A, D, participating, expanding, unconditional, bounded,  \* const inputs
    piExpand, verr, pi, uniContact,                          \* in/out
    m_maxIters, m_nSolves,
    m_active, m_mult2active, m_verrLeft, m_verrExpand,
    m_JacActive, m_rhsActive, m_piActive, m_errActive,
    piELeft, piTotal, piGuess, piSave, dpi,                  \* locals of solve
    converged, frac, interval, its, errNorm, newtIter, fracLS,
    pc, ret, entry,
    call        \* a helper or test program run on its own, outside solve

constInputs == <<A, D, participating, expanding, unconditional, bounded, m_maxIters>>

fields == <<m_active, m_mult2active, m_verrLeft, m_verrExpand>>

newtonFields == <<m_JacActive, m_rhsActive, m_piActive, m_errActive>>

newtonLocals == <<piSave, dpi, errNorm, newtIter, fracLS>>

vars == <<A, D, participating, expanding, unconditional, bounded,
          piExpand, verr, pi, uniContact, m_maxIters, m_nSolves,
          m_active, m_mult2active, m_verrLeft, m_verrExpand,
          m_JacActive, m_rhsActive, m_piActive, m_errActive,
          piELeft, piTotal, piGuess, piSave, dpi,
          converged, frac, interval, its, errNorm, newtIter, fracLS,
          pc, ret, entry, call>>

m == Len(A)

Init ==
    \E sc \in Scenarios, rt \in StaleRT, mi \in 0..MaxItersCfg, p0 \in {0, 5} :
        /\ A = sc.A
        /\ D = sc.D
        /\ participating = sc.participating
        /\ expanding = sc.expanding
        /\ unconditional = sc.unconditional
        /\ bounded = sc.bounded
        /\ piExpand = sc.piExpand
        /\ verr = sc.verr
        /\ pi = [i \in 1..Len(sc.A) |-> p0]
        /\ uniContact = [k \in 1..Len(sc.uniContact) |-> WithRT(sc.uniContact[k], rt)]
        /\ m_maxIters = mi
        /\ m_nSolves = 0
        /\ m_active = <<>>
        /\ m_mult2active = <<>>
        /\ m_verrLeft = <<>>
        /\ m_verrExpand = <<>>
        /\ m_JacActive = <<>>
        /\ m_rhsActive = <<>>
        /\ m_piActive = <<>>
        /\ m_errActive = <<>>
        /\ piELeft = <<>>
        /\ piTotal = <<>>
        /\ piGuess = <<>>
        /\ piSave = <<>>
        /\ dpi = <<>>
        /\ converged = FALSE
        /\ frac = Frac(0, 1)
        /\ interval = 0
        /\ its = 0
        /\ errNorm = 0
        /\ newtIter = 0
        /\ fracLS = 0
        /\ pc = "entry"
        /\ ret = "none"
        /\ call = [pc |-> "none"]
        /\ entry = [verr |-> sc.verr, piExpand |-> sc.piExpand,
                    uniContact |-> [k \in 1..Len(sc.uniContact) |->
                                       WithRT(sc.uniContact[k], rt)]]

\* ---------------------------------------------------------------- solve
\* lines 150-216: count the call, zero pi, return at once when nothing
\* participates, otherwise set up the working copies
SolveEntry ==
    /\ pc = "entry"
    /\ m_nSolves' = m_nSolves + 1
    /\ pi' = resizeToZero(pi, m)
    /\ IF Len(participating) = 0
       THEN /\ ret' = "true"
            /\ pc' = "done"
            /\ UNCHANGED <<m_verrLeft, m_verrExpand, piELeft, piTotal, converged,
                           interval, frac>>
       ELSE /\ m_verrLeft' = verr
            /\ piELeft' = piExpand
            /\ m_verrExpand' = ZeroVec(m)
            /\ piTotal' = ZeroVec(m)
            /\ converged' = FALSE
            /\ interval' = 0
            /\ frac' = Frac(0, 1)
            /\ ret' = ret
            /\ pc' = "interval"
    /\ UNCHANGED <<call, constInputs, piExpand, verr, uniContact, m_active, m_mult2active,
                   newtonFields, newtonLocals, piGuess, its, entry>>

\* the run leaves the grid: it is not followed any further
LeaveGrid ==
    /\ pc' = "offgrid"
    /\ UNCHANGED <<call, constInputs, piExpand, verr, pi, uniContact, m_nSolves, fields,
                   newtonFields, newtonLocals, piELeft, piTotal, piGuess, converged,
                   frac, interval, its, ret, entry>>

\* lines 224-254: start a sliding interval
IntervalStart ==
    /\ pc = "interval"
    /\ FracLess(frac, Frac(1, 1))
    /\ interval < MaxIntervals
    /\ IF slipOnGrid(classifyFrictionals(uniContact, m_verrLeft))
       THEN /\ interval' = interval + 1
            /\ m_active' = participating
            /\ m_mult2active' = fillMult2Active(participating, m)
            /\ m_verrExpand' = [mx \in 1..m |->
                                   multRowTimesSparseCol(A, mx, expanding, piELeft)
                                   + D[mx] * piELeft[mx]]
            /\ piGuess' = ZeroVec(m)
            /\ uniContact' = classifyFrictionals(uniContact, m_verrLeft)
            /\ its' = 1
            /\ pc' = "activeset"
            /\ UNCHANGED <<call, constInputs, piExpand, verr, pi, m_nSolves, m_verrLeft,
                           newtonFields, newtonLocals, piELeft, piTotal, converged,
                           frac, ret, entry>>
       ELSE LeaveGrid

\* lines 599-617: frac reached 1; hand back the accumulated impulse
SolveReturn ==
    /\ pc = "interval"
    /\ ~FracLess(frac, Frac(1, 1))
    /\ pi' = piTotal
    /\ verr' = m_verrLeft
    /\ ret' = IF converged THEN "true" ELSE "false"
    /\ pc' = "done"
    /\ UNCHANGED <<call, constInputs, piExpand, uniContact, m_nSolves, fields,
                   newtonFields, newtonLocals, piELeft, piTotal, piGuess, converged,
                   frac, interval, its, entry>>

\* lines 271-286: one active-set iteration up to the start of Newton
ActiveSetIter ==
    /\ pc = "activeset"
    /\ its <= MaxIts
    /\ LET m2a == fillMult2Active(m_active, m)
           rhs == initRhs(m_active, m_verrLeft, m_verrExpand)
           pi0 == initPi(m_active, m2a, rhs, piGuess, uniContact)
           uc1 == updateDirections(A, uniContact, m_active, m_verrExpand, pi0)
           err == calcCurrentError(A, uc1, m_active, m2a, rhs, piELeft, pi0)
           jac0 == initJac(A, m_active)
       IN IF Len(m_active) = 0
          THEN /\ m_mult2active' = m2a
               /\ m_rhsActive' = rhs
               /\ m_piActive' = pi0
               /\ uniContact' = uc1
               /\ m_errActive' = err
               /\ m_JacActive' = jac0
               /\ pc' = "fraction"
               /\ UNCHANGED <<call, constInputs, piExpand, verr, pi, m_nSolves, m_active,
                              m_verrLeft, m_verrExpand, piELeft, piTotal, piGuess,
                              newtonLocals, converged, frac, interval, its, ret, entry>>
          ELSE IF slipOnGrid(uc1) /\ jacOnGrid(A, uc1, m_active, m2a, pi0)
          THEN /\ m_mult2active' = m2a
               /\ m_rhsActive' = rhs
               /\ m_piActive' = pi0
               /\ uniContact' = uc1
               /\ m_errActive' = err
               /\ m_JacActive' = updateJacobianForSliding(A, uc1, m_active, m2a,
                                                          piELeft, pi0, jac0)
               /\ errNorm' = normSq(uc1, m2a, err)
               /\ newtIter' = 0
               /\ pc' = IF AboveTol(errNorm') THEN "newton" ELSE "project"
               /\ UNCHANGED <<call, constInputs, piExpand, verr, pi, m_nSolves, m_active,
                              m_verrLeft, m_verrExpand, piELeft, piTotal, piGuess,
                              piSave, dpi, fracLS, converged, frac, interval, its,
                              ret, entry>>
          ELSE LeaveGrid

\* lines 288-306: a Newton iteration begins: solve for the step, save pi
NewtonIter ==
    /\ pc = "newton"
    /\ LET rhs2 == [ai \in 1..Len(m_errActive) |-> 2 * m_errActive[ai]]
       IN IF lsOnGrid(m_JacActive, rhs2)
          THEN /\ newtIter' = newtIter + 1
               /\ dpi' = FactorQTZsolve(m_JacActive, rhs2)
               /\ fracLS' = LSDen
               /\ piSave' = m_piActive
               /\ pc' = "linesearch"
               /\ UNCHANGED <<call, constInputs, piExpand, verr, pi, uniContact, m_nSolves,
                              fields, newtonFields, errNorm, piELeft, piTotal, piGuess,
                              converged, frac, interval, its, ret, entry>>
          ELSE LeaveGrid

\* lines 308-347: one line-search trial, and, once the search ends, the
\* tests that close the Newton iteration
LineSearch ==
    /\ pc = "linesearch"
    /\ LET piNow == [ai \in 1..Len(piSave) |->
                        piSave[ai] - fracTimes(Frac(fracLS, LSDen), dpi[ai])]
           uc1 == updateDirections(A, uniContact, m_active, m_verrExpand, piNow)
           err == calcCurrentError(A, uc1, m_active, m_mult2active, m_rhsActive,
                                   piELeft, piNow)
           normNow == normSq(uc1, m_mult2active, err)
           better == normNow < errNorm
           stuck == ~better /\ lineSearchStuck(fracLS \div 2)
           again == ~BelowTol(normNow) /\ newtIter < m_maxIters
       IN IF /\ fracOnGrid(Frac(fracLS, LSDen), dpi)
             /\ slipOnGrid(uc1)
             /\ ((better \/ stuck) /\ again)
                    => jacOnGrid(A, uc1, m_active, m_mult2active, piNow)
          THEN /\ m_piActive' = piNow
               /\ uniContact' = uc1
               /\ m_errActive' = err
               /\ fracLS' = IF better THEN fracLS ELSE fracLS \div 2
               /\ IF better \/ stuck
                  THEN /\ errNorm' = normNow
                       /\ IF again
                          THEN /\ m_JacActive' = updateJacobianForSliding(A, uc1,
                                       m_active, m_mult2active, piELeft, piNow, m_JacActive)
                               /\ pc' = "newton"
                          ELSE /\ m_JacActive' = m_JacActive
                               /\ pc' = "project"
                  ELSE /\ pc' = "linesearch"
                       /\ UNCHANGED <<m_JacActive, errNorm>>
               /\ UNCHANGED <<call, constInputs, piExpand, verr, pi, m_nSolves, fields,
                              m_rhsActive, piELeft, piTotal, piGuess, piSave, dpi,
                              newtIter, converged, frac, interval, its, ret, entry>>
          ELSE LeaveGrid

\* lines 353-517: unpack and project the Newton result, accept it or prune
\* the active set
Project ==
    /\ pc = "project"
    /\ LET bErr == boundedErr(bounded, m_mult2active, m_piActive)
           nErr == uniNormalErr(uniContact, m_mult2active, m_piActive)
           fErr == fricErr(uniContact, m_mult2active, piELeft, m_piActive)
           worstUniNormal == worstIndex(nErr)
           releaseNormal == releasesNormal(uniContact, nErr, fErr)
           worstFric == IF worstValue(nErr) > worstValue(fErr)
                        THEN worstUniNormal ELSE worstIndex(fErr)
       IN IF projOnGrid(uniContact, m_mult2active, piELeft, m_piActive)
          THEN /\ piGuess' = projectGuess(unconditional, bounded, uniContact,
                                          m_mult2active, piELeft, m_piActive, piGuess)
               /\ IF /\ WithinTol(worstValue(bErr))
                     /\ WithinTol(worstValue(nErr))
                     /\ WithinTol(worstValue(fErr))
                  THEN /\ pc' = "fraction"
                       /\ UNCHANGED <<uniContact, m_active, its>>
                  ELSE IF releaseNormal
                  THEN LET rt == uniContact[worstUniNormal]
                       IN /\ uniContact' = [uniContact EXCEPT
                                 ![worstUniNormal].m_contactCond = "UniOff"]
                          /\ m_active' =
                                 IF ~hasFriction(rt)
                                 THEN eraseFast(m_active, m_mult2active[rt.m_Nk])
                                 ELSE eraseThreeFast(m_active, m_mult2active[rt.m_Nk],
                                          m_mult2active[rt.m_Fk[1]],
                                          m_mult2active[rt.m_Fk[2]])
                          /\ its' = its + 1
                          /\ pc' = "activeset"
                  ELSE IF worstFric <= Len(uniContact) /\ hasFriction(uniContact[worstFric])
                  THEN /\ uniContact' = [uniContact EXCEPT
                              ![worstFric].m_frictionCond = "Impending"]
                       /\ its' = its + 1
                       /\ pc' = "activeset"
                       /\ m_active' = m_active
                  ELSE \* uniContact[worstFric], or its m_Fk[0], does not exist:
                       \* the access faults, or the loop goes on
                       /\ m_active' = m_active
                       /\ \/ /\ pc' = "crashed"
                             /\ UNCHANGED <<uniContact, its>>
                          \/ /\ pc' = "activeset"
                             /\ its' = its + 1
                             /\ uniContact' =
                                    IF worstFric <= Len(uniContact)
                                    THEN [uniContact EXCEPT
                                             ![worstFric].m_frictionCond = "Impending"]
                                    ELSE uniContact
               /\ UNCHANGED <<call, constInputs, piExpand, verr, pi, m_nSolves, m_mult2active,
                              m_verrLeft, m_verrExpand, newtonFields, newtonLocals,
                              piELeft, piTotal, converged, frac, interval, ret, entry>>
          ELSE LeaveGrid

\* the remaining expansion impulse handed back through the in/out argument
piExpandWrittenBack(piE, piEL) == piEL

\* lines 577-581: the bookkeeping writes the copy piELeft made at line 207;
\* the caller's piExpand is not assigned
piExpandAfter(piE, piEL) == piE

\* lines 520-590: the fraction of the interval that can be accepted, then
\* the accumulation of what was done
IntervalEnd ==
    /\ pc = "fraction"
    /\ \E noise \in [1..Len(uniContact) -> DegenerateStep] :
        LET steps == [k \in 1..Len(uniContact) |->
                         slidingRestriction(A, uniContact[k], m_active, m_verrExpand,
                                            m_piActive, noise[k])]
            fr == minOverSteps(Frac(1, 1), steps)
            piDone == [ai \in 1..Len(m_piActive) |-> fracTimes(fr, m_piActive[ai])]
        IN /\ \A k \in 1..Len(uniContact) :
                  slidingDegenerate(A, uniContact[k], m_active, m_verrExpand, m_piActive)
                      \/ noise[k] = NaNStep
           /\ IF /\ fracOnGrid(fr, m_piActive)
                 /\ fracOnGrid(fr, m_verrExpand)
                 /\ fracOnGrid(fr, piELeft)
              THEN /\ frac' = fr
                   /\ piELeft' = [mx \in 1..m |->
                                     IF \E i \in 1..Len(expanding) : expanding[i] = mx
                                     THEN piELeft[mx] - fracTimes(fr, piELeft[mx])
                                     ELSE piELeft[mx]]
                   /\ m_piActive' = piDone
                   /\ piTotal' = addInActiveCol(m_active, piDone, piTotal)
                   /\ m_verrLeft' = [mx \in 1..m |->
                                        m_verrLeft[mx]
                                        - (multRowTimesActiveCol(A, mx, m_active, piDone)
                                           + fracTimes(fr, m_verrExpand[mx]))]
                   /\ pc' = "interval"
                   /\ piExpand' = piExpandAfter(piExpand, piELeft')
                   /\ UNCHANGED <<call, constInputs, verr, pi, uniContact, m_nSolves,
                                  m_active, m_mult2active, m_verrExpand, m_JacActive,
                                  m_rhsActive, m_errActive, newtonLocals, piGuess,
                                  converged, interval, its, ret, entry>>
              ELSE LeaveGrid

Next ==
    \/ SolveEntry
    \/ IntervalStart
    \/ SolveReturn
    \/ ActiveSetIter
    \/ NewtonIter
    \/ LineSearch
    \/ Project
    \/ IntervalEnd

Spec == Init /\ [][Next]_vars

\* ------------------------------------------- helpers called on their own
\* solve is not running
solverIdle ==
    /\ A = <<>> /\ D = <<>> /\ participating = <<>> /\ expanding = <<>>
    /\ unconditional = <<>> /\ bounded = <<>> /\ piExpand = <<>> /\ verr = <<>>
    /\ pi = <<>> /\ uniContact = <<>> /\ m_maxIters = 0 /\ m_nSolves = 0
    /\ m_active = <<>> /\ m_mult2active = <<>> /\ m_verrLeft = <<>>
    /\ m_verrExpand = <<>> /\ m_JacActive = <<>> /\ m_rhsActive = <<>>
    /\ m_piActive = <<>> /\ m_errActive = <<>> /\ piELeft = <<>> /\ piTotal = <<>>
    /\ piGuess = <<>> /\ piSave = <<>> /\ dpi = <<>> /\ converged = FALSE
    /\ frac = Frac(0, 1) /\ interval = 0 /\ its = 0 /\ errNorm = 0 /\ newtIter = 0
    /\ fracLS = 0 /\ pc = "idle" /\ ret = "none" /\ entry = <<>>

solverVars ==
    <<A, D, participating, expanding, unconditional, bounded, piExpand, verr, pi,
      uniContact, m_maxIters, m_nSolves, m_active, m_mult2active, m_verrLeft,
      m_verrExpand, m_JacActive, m_rhsActive, m_piActive, m_errActive, piELeft,
      piTotal, piGuess, piSave, dpi, converged, frac, interval, its, errNorm,
      newtIter, fracLS, pc, ret, entry>>

\* slip velocities handed to calcSlidingStepLengthToOrigin
Vec2s == { <<x, y>> : x \in (0 - StepMax)..StepMax, y \in (0 - StepMax)..StepMax }

Vec3s == { <<x, y, z>> : x \in (0 - StepMax)..StepMax, y \in (0 - StepMax)..StepMax,
                         z \in {-1, 0, 1} }

InitStep ==
    /\ solverIdle
    /\ \E V \in {Vec2s, Vec3s} : \E a \in V, b \in V :
           call = [pc |-> "start", A |-> a, B |-> b, s |-> Frac(0, 1), Q |-> a]

CallStepToOrigin2 ==
    /\ call.pc = "start"
    /\ Len(call.A) = 2
    /\ call' = [call EXCEPT !.pc = "returned",
                            !.s = stepToOrigin(call.A, call.B).s,
                            !.Q = stepToOrigin(call.A, call.B).Q]
    /\ UNCHANGED solverVars

CallStepToOrigin3 ==
    /\ call.pc = "start"
    /\ Len(call.A) = 3
    /\ call' = [call EXCEPT !.pc = "returned",
                            !.s = stepToOrigin3(call.A, call.B).s,
                            !.Q = stepToOrigin3(call.A, call.B).Q]
    /\ UNCHANGED solverVars

NextStep ==
    \/ CallStepToOrigin2
    \/ CallStepToOrigin3

SpecStep == InitStep /\ [][NextStep]_vars

\* ------------------------------------- TestBigMatrix.cpp, main, 136-165
Mat22(a, b, c, d) == << <<a, b>>, <<c, d>> >>

\* a scalar added to every element of the matrix
matAddScalarAll(M, s) ==
    [i \in 1..Len(M) |-> [j \in 1..Len(M[i]) |-> M[i][j] + s]]

\* Matrix += scalar, Matrix + scalar, scalar + Matrix
matAddScalar(M, s) ==
    [i \in 1..Len(M) |-> [j \in 1..Len(M[i]) |->
        IF i = j THEN M[i][j] + s ELSE M[i][j]]]

\* Matrix -= scalar, Matrix - scalar
matSubScalar(M, s) ==
    [i \in 1..Len(M) |-> [j \in 1..Len(M[i]) |->
        IF i = j THEN M[i][j] - s ELSE M[i][j]]]

\* scalar - Matrix
scalarSubMat(s, M) ==
    [i \in 1..Len(M) |-> [j \in 1..Len(M[i]) |->
        IF i = j THEN s - M[i][j] ELSE 0 - M[i][j]]]

\* Vector/RowVector -= scalar that leaves the first element alone
vecSubScalarTail(v, s) == [i \in 1..Len(v) |-> IF i = 1 THEN v[i] ELSE v[i] - s]

\* Vector/RowVector += scalar, + scalar, scalar +
vecAddScalar(v, s) == [i \in 1..Len(v) |-> v[i] + s]

\* Vector/RowVector -= scalar, - scalar
vecSubScalar(v, s) == [i \in 1..Len(v) |-> v[i] - s]

\* scalar - Vector/RowVector
scalarSubVec(s, v) == [i \in 1..Len(v) |-> s - v[i]]

\* testMatrix<T,M,N>(value, expected)
testMatrix(value, expected) ==
    /\ Len(value) = Len(expected)
    /\ \A i \in 1..Len(expected) :
           /\ Len(value[i]) = Len(expected[i])
           /\ \A j \in 1..Len(expected[i]) :
                  IF expected[i][j] = NaN THEN value[i][j] = NaN
                  ELSE value[i][j] = expected[i][j]

\* testVector<T,N>(value, expected)
testVector(value, expected) ==
    /\ Len(value) = Len(expected)
    /\ \A i \in 1..Len(expected) :
           IF expected[i] = NaN THEN value[i] = NaN ELSE value[i] = expected[i]

\* the operands main uses
literalRun(c) ==
    /\ c.m0 = Mat22(1, 2, 3, 4)
    /\ c.sM = 3
    /\ c.sB = 1
    /\ c.v0 = <<1, 2, 3>>
    /\ c.sV = 2

\* an ASSERT of testMatrix/testVector: main has expected values for its own
\* operands only
ASSERTok(c, passes) == c.ok /\ (literalRun(c) => passes)

InitTest ==
    /\ solverIdle
    /\ \E a \in 1..MatMax, b \in 1..MatMax, c \in 1..MatMax, d \in 1..MatMax,
          s3 \in {2, 3}, s1 \in {1, 2}, v3 \in { <<1, 2, 3>>, <<0, -1, 4>> } :
           call = [pc |-> "start", m0 |-> Mat22(a, b, c, d), sM |-> s3, sB |-> s1,
                   v0 |-> v3, sV |-> 2, m |-> <<>>, v |-> <<>>, r |-> <<>>,
                   res |-> <<>>, ok |-> TRUE]

\* 136-137
TestMatrixCtor ==
    /\ call.pc = "start"
    /\ call' = [call EXCEPT !.pc = "m", !.m = call.m0,
                   !.ok = ASSERTok(call, testMatrix(call.m0, Mat22(1, 2, 3, 4)))]
    /\ UNCHANGED solverVars

\* 138-139
TestMatrixPlusEq ==
    /\ call.pc = "m"
    /\ call' = [call EXCEPT !.pc = "m+=", !.m = matAddScalar(call.m, call.sM),
                   !.ok = ASSERTok(call, testMatrix(matAddScalar(call.m, call.sM),
                                                    Mat22(4, 2, 3, 7)))]
    /\ UNCHANGED solverVars

\* 140-141
TestMatrixMinusEq ==
    /\ call.pc = "m+="
    /\ call' = [call EXCEPT !.pc = "m-=", !.m = matSubScalar(call.m, call.sM),
                   !.ok = ASSERTok(call, testMatrix(matSubScalar(call.m, call.sM),
                                                    Mat22(1, 2, 3, 4)))]
    /\ UNCHANGED solverVars

\* 142-145
TestMatrixBinary ==
    /\ call.pc = "m-="
    /\ LET ms == matSubScalar(call.m, call.sB)
           mp == matAddScalar(call.m, call.sB)
           sm == scalarSubMat(call.sB, call.m)
           sp == matAddScalar(call.m, call.sB)
       IN call' = [call EXCEPT !.pc = "m op s", !.res = <<ms, mp, sm, sp>>,
                      !.ok = ASSERTok(call, /\ testMatrix(ms, Mat22(0, 2, 3, 3))
                                            /\ testMatrix(mp, Mat22(2, 2, 3, 5))
                                            /\ testMatrix(sm, Mat22(0, -2, -3, -3))
                                            /\ testMatrix(sp, Mat22(2, 2, 3, 5)))]
    /\ UNCHANGED solverVars

\* 146-147
TestVectorCtor ==
    /\ call.pc = "m op s"
    /\ call' = [call EXCEPT !.pc = "v", !.v = call.v0,
                   !.ok = ASSERTok(call, testVector(call.v0, <<1, 2, 3>>))]
    /\ UNCHANGED solverVars

\* 148-149
TestVectorPlusEq ==
    /\ call.pc = "v"
    /\ call' = [call EXCEPT !.pc = "v+=", !.v = vecAddScalar(call.v, call.sV),
                   !.ok = ASSERTok(call, testVector(vecAddScalar(call.v, call.sV),
                                                    <<3, 4, 5>>))]
    /\ UNCHANGED solverVars

\* 150-151
TestVectorMinusEq ==
    /\ call.pc = "v+="
    /\ call' = [call EXCEPT !.pc = "v-=", !.v = vecSubScalar(call.v, call.sV),
                   !.ok = ASSERTok(call, testVector(vecSubScalar(call.v, call.sV),
                                                    <<1, 2, 3>>))]
    /\ UNCHANGED solverVars

\* 152-155
TestVectorBinary ==
    /\ call.pc = "v-="
    /\ LET vs == vecSubScalar(call.v, call.sB)
           vp == vecAddScalar(call.v, call.sB)
           sv == scalarSubVec(call.sB, call.v)
           sp == vecAddScalar(call.v, call.sB)
       IN call' = [call EXCEPT !.pc = "v op s", !.res = <<vs, vp, sv, sp>>,
                      !.ok = ASSERTok(call, /\ testVector(vs, <<0, 1, 2>>)
                                            /\ testVector(vp, <<2, 3, 4>>)
                                            /\ testVector(sv, <<0, -1, -2>>)
                                            /\ testVector(sp, <<2, 3, 4>>))]
    /\ UNCHANGED solverVars

\* 156-157
TestRowVectorCtor ==
    /\ call.pc = "v op s"
    /\ call' = [call EXCEPT !.pc = "r", !.r = call.v0,
                   !.ok = ASSERTok(call, testVector(call.v0, <<1, 2, 3>>))]
    /\ UNCHANGED solverVars

\* 158-159
TestRowVectorPlusEq ==
    /\ call.pc = "r"
    /\ call' = [call EXCEPT !.pc = "r+=", !.r = vecAddScalar(call.r, call.sV),
                   !.ok = ASSERTok(call, testVector(vecAddScalar(call.r, call.sV),
                                                    <<3, 4, 5>>))]
    /\ UNCHANGED solverVars

\* 160-161
TestRowVectorMinusEq ==
    /\ call.pc = "r+="
    /\ call' = [call EXCEPT !.pc = "r-=", !.r = vecSubScalar(call.r, call.sV),
                   !.ok = ASSERTok(call, testVector(vecSubScalar(call.r, call.sV),
                                                    <<1, 2, 3>>))]
    /\ UNCHANGED solverVars

\* 162-165
TestRowVectorBinary ==
    /\ call.pc = "r-="
    /\ LET rs == vecSubScalar(call.r, call.sB)
           rp == vecAddScalar(call.r, call.sB)
           sr == scalarSubVec(call.sB, call.r)
           sp == vecAddScalar(call.r, call.sB)
       IN call' = [call EXCEPT !.pc = "r op s", !.res = <<rs, rp, sr, sp>>,
                      !.ok = ASSERTok(call, /\ testVector(rs, <<0, 1, 2>>)
                                            /\ testVector(rp, <<2, 3, 4>>)
                                            /\ testVector(sr, <<0, -1, -2>>)
                                            /\ testVector(sp, <<2, 3, 4>>))]
    /\ UNCHANGED solverVars

NextTest ==
    \/ TestMatrixCtor
    \/ TestMatrixPlusEq
    \/ TestMatrixMinusEq
    \/ TestMatrixBinary
    \/ TestVectorCtor
    \/ TestVectorPlusEq
    \/ TestVectorMinusEq
    \/ TestVectorBinary
    \/ TestRowVectorCtor
    \/ TestRowVectorPlusEq
    \/ TestRowVectorMinusEq
    \/ TestRowVectorBinary

SpecTest == InitTest /\ [][NextTest]_vars


\* ================================================================ claims
Returned == pc = "done"

fullRow(row, x) == SumSeq([j \in 1..m |-> A[row][j] * x[j]])

isParticipating(i) == \E ax \in 1..Len(participating) : participating[ax] = i

\* C1: when the interval loop ends with frac = 1, solve returns true.
C1_ReturnsTrueAtFullStep ==
    (Returned /\ interval > 0 /\ ~FracLess(frac, Frac(1, 1))) => ret = "true"

C3_BoundedWithinLimits ==
    Returned =>
        \A k \in 1..Len(bounded) :
            /\ bounded[k].m_lb <= pi[bounded[k].m_ix]
            /\ pi[bounded[k].m_ix] <= bounded[k].m_ub

C5_FrictionCone ==
    (Returned /\ interval > 0) =>
        \A k \in 1..Len(uniContact) :
            hasFriction(uniContact[k]) =>
                square(pi[uniContact[k].m_Fk[1]]) + square(pi[uniContact[k].m_Fk[2]])
                    <= square(uniContact[k].m_effMu
                              * Abs(pi[uniContact[k].m_Nk] + piExpand[uniContact[k].m_Nk]))

\* C6: on return pi has length m, pi[i] = 0 for every i outside participating,
\* and an Observing contact has pi[Nk] = 0 and pi[Fk] = 0.
C6_ZeroOutsideParticipating ==
    Returned =>
        /\ Len(pi) = m
        /\ \A i \in 1..m : ~isParticipating(i) => pi[i] = 0
        /\ \A k \in 1..Len(uniContact) :
               uniContact[k].m_type = "Observing" =>
                   /\ pi[uniContact[k].m_Nk] = 0
                   /\ \A i \in 1..Len(uniContact[k].m_Fk) : pi[uniContact[k].m_Fk[i]] = 0

C6_Witness ==
    /\ Returned
    /\ Len(uniContact) > 0
    /\ uniContact[1].m_type = "Observing"
    /\ hasFriction(uniContact[1])
    /\ \E i \in 1..m : pi[i] # 0

onlyUnconditional ==
    /\ Len(uniContact) = 0
    /\ Len(bounded) = 0
    /\ Len(expanding) = 0
    /\ piExpand = ZeroVec(m)
    /\ \A i \in 1..m : isParticipating(i) /\ inUncond(unconditional, i)

C8_UnconditionalSolve ==
    (Returned /\ onlyUnconditional) =>
        /\ interval = 1
        /\ its = 1
        /\ m_active = participating
        /\ \A row \in 1..m : fullRow(row, pi) = entry.verr[row]
        /\ verr = ZeroVec(m)
        /\ (A = << <<2>> >> /\ entry.verr = <<4>>) => pi = <<2>>

C8_Witness ==
    /\ Returned
    /\ onlyUnconditional
    /\ A = << <<2>> >>
    /\ entry.verr = <<4>>
    /\ pi = <<2>>
    /\ verr = <<0>>

\* C9: one frictionless Participating contact, m = 1, A = [[a]], a > 0,
\* sign = +1, D = 0, piExpand = 0.  verr < 0: pi = verr/a, verr = 0, still
\* UniActive.  verr > 0: released (UniOff, empty active set), pi = 0, verr
\* unchanged.  verr = 0: pi = 0 and no Newton step is taken.
singleFrictionless ==
    /\ m = 1
    /\ Len(uniContact) = 1
    /\ uniContact[1].m_type = "Participating"
    /\ ~hasFriction(uniContact[1])
    /\ uniContact[1].m_sign = 1
    /\ A[1][1] > 0
    /\ D = <<0>>
    /\ piExpand = <<0>>

C9_SingleFrictionlessContact ==
    singleFrictionless =>
        /\ (entry.verr[1] = 0) => pc \notin {"newton", "linesearch"}
        /\ Returned =>
            /\ (entry.verr[1] < 0) =>
                   /\ A[1][1] * pi[1] = entry.verr[1]
                   /\ verr = <<0>>
                   /\ uniContact[1].m_contactCond = "UniActive"
            /\ (entry.verr[1] > 0) =>
                   /\ uniContact[1].m_contactCond = "UniOff"
                   /\ m_active = <<>>
                   /\ pi = <<0>>
                   /\ verr = entry.verr
            /\ (entry.verr[1] = 0) => (pi = <<0>> /\ newtIter = 0)

C9_Witness ==
    /\ singleFrictionless
    /\ Returned
    /\ entry.verr[1] > 0
    /\ uniContact[1].m_contactCond = "UniOff"
    /\ m_active = <<>>
    /\ verr = entry.verr

\* C10: classifyFrictionals maps Participating/Known/Observing to
\* UniActive/UniKnown/UniOff; an Observing or frictionless contact is
\* FricOff; otherwise slipVel[i] = verrLeft[Fk[i]] and the contact is Sliding
\* iff the slip magnitude is strictly above maxRollingTangVel, else Rolling;
\* nothing is Impending afterwards; classifying again changes nothing.
classifiedAs(rt, verrLeft) ==
    /\ rt.m_contactCond = (IF rt.m_type = "Participating" THEN "UniActive"
                           ELSE IF rt.m_type = "Known" THEN "UniKnown" ELSE "UniOff")
    /\ rt.m_frictionCond # "Impending"
    /\ IF rt.m_type = "Observing" \/ ~hasFriction(rt)
       THEN rt.m_frictionCond = "FricOff"
       ELSE /\ \A i \in 1..2 : rt.m_slipVel[i] = verrLeft[rt.m_Fk[i]]
            /\ rt.m_frictionCond = "Sliding"
                   <=> square(verrLeft[rt.m_Fk[1]]) + square(verrLeft[rt.m_Fk[2]])
                           > square(m_maxRollingTangVel)
            /\ rt.m_frictionCond \in {"Sliding", "Rolling"}

C10_Classification ==
    /\ (pc = "activeset" /\ its = 1) =>
           /\ \A k \in 1..Len(uniContact) : classifiedAs(uniContact[k], m_verrLeft)
           /\ classifyFrictionals(uniContact, m_verrLeft) = uniContact
    /\ (Len(m_verrLeft) = m) =>
           classifyFrictionals(classifyFrictionals(uniContact, m_verrLeft), m_verrLeft)
               = classifyFrictionals(uniContact, m_verrLeft)

C10_Witness ==
    /\ pc = "activeset"
    /\ its = 1
    /\ Len(uniContact) = 1
    /\ entry.uniContact[1].m_frictionCond = "Impending"
    /\ hasFriction(uniContact[1])
    /\ uniContact[1].m_slipVel = <<1, 0>>
    /\ uniContact[1].m_frictionCond = "Rolling"

\* C11: from the first classification until solve returns, every Observing
\* contact has m_contactCond = UniOff and m_frictionCond = FricOff; no
\* projection or pruning step changes either field.
C11_ObservingStaysOff ==
    (interval > 0) =>
        \A k \in 1..Len(uniContact) :
            uniContact[k].m_type = "Observing" =>
                /\ uniContact[k].m_contactCond = "UniOff"
                /\ uniContact[k].m_frictionCond = "FricOff"

\* C12: solve writes no field of a constraint record other than the runtime
\* fields m_contactCond, m_frictionCond, m_slipVel, m_slipMag of a
\* uni-contact: m_type, m_Nk, m_Fk, m_effMu, m_sign, every BoundedRT, every
\* UncondRT, participating, expanding, A and D are the same after every step.
sameStatics(rt1, rt2) ==
    /\ rt1.m_type = rt2.m_type
    /\ rt1.m_Nk = rt2.m_Nk
    /\ rt1.m_Fk = rt2.m_Fk
    /\ rt1.m_effMu = rt2.m_effMu
    /\ rt1.m_sign = rt2.m_sign

C12_OnlyRuntimeFieldsWritten ==
    [][/\ UNCHANGED <<A, D, participating, expanding, unconditional, bounded>>
       /\ Len(uniContact') = Len(uniContact)
       /\ \A k \in 1..Len(uniContact) : sameStatics(uniContact'[k], uniContact[k])]_vars

C12_Witness ==
    /\ Returned
    /\ interval > 0
    /\ Len(uniContact) > 0
    /\ entry.uniContact[1].m_frictionCond = "FricOff"
    /\ uniContact[1].m_frictionCond = "Impending"
    /\ uniContact[1].m_slipMag > 0
    /\ sameStatics(uniContact[1], entry.uniContact[1])

\* C13: calcSlidingStepLengthToOrigin(A, B, Q), in 2D and 3D, returns s with
\* 0 <= s <= 1: s = 1 and Q = B when |A|^2 < maxRollingTangVel^2 or
\* |B-A|^2 < SignificantReal; otherwise s = clamp(0, (-A).(B-A)/|B-A|^2, 1)
\* and Q = A + s*(B-A), the point of segment AB closest to the origin.
\* (s is the fraction call.s; Q is held as numerators over call.s.d.)
dotv(x, y) == SumSeq([i \in 1..Len(x) |-> x[i] * y[i]])

C13_StepToOrigin ==
    (call.pc = "returned") =>
        LET a == call.A
            b == call.B
            v == [i \in 1..Len(a) |-> b[i] - a[i]]
            ABsqr == dotv(v, v)
            s == call.s
            Q == call.Q
        IN /\ s.d > 0
           /\ 0 <= s.n
           /\ s.n <= s.d
           /\ IF dotv(a, a) < square(m_maxRollingTangVel) \/ BelowTol(ABsqr)
              THEN s = Frac(1, 1) /\ Q = b
              ELSE /\ s.n * ABsqr = clamp(0, dotv([i \in 1..Len(a) |-> 0 - a[i]], v), ABsqr) * s.d
                   /\ \A i \in 1..Len(a) : Q[i] = a[i] * s.d + s.n * v[i]
                   /\ \A t \in 0..s.d :
                          dotv(Q, Q) <= dotv([i \in 1..Len(a) |-> a[i] * s.d + t * v[i]],
                                             [i \in 1..Len(a) |-> a[i] * s.d + t * v[i]])

\* a 3D call whose unclamped step would exceed 1
C13_Witness ==
    /\ call.pc = "returned"
    /\ call.A = <<2, 0, 0>>
    /\ call.B = <<1, 0, 0>>
    /\ call.s = Frac(1, 1)
    /\ call.Q = <<1, 0, 0>>

\* C14: adding or subtracting a scalar s and a square Matrix m (m += s,
\* m -= s, m+s, s+m, m-s, s-m) applies s to the diagonal only: the diagonal
\* of the result is m(i,i)+s, m(i,i)-s or s-m(i,i), each off-diagonal element
\* is m(i,j) (negated for s-m); [[1,2],[3,4]] + 3 = [[4,2],[3,7]] and
\* 1 - [[1,2],[3,4]] = [[0,-2],[-3,-3]]; the test's assertions pass.
diagOnly(R, M, dsign, msign, s) ==
    /\ Len(R) = Len(M)
    /\ \A i \in 1..Len(M) :
           /\ Len(R[i]) = Len(M[i])
           /\ \A j \in 1..Len(M[i]) :
                  R[i][j] = msign * M[i][j] + (IF i = j THEN dsign * s ELSE 0)

C14_ScalarOnDiagonal ==
    /\ call.ok
    /\ (call.pc = "m+=") => diagOnly(call.m, call.m0, 1, 1, call.sM)
    /\ (call.pc = "m+=" /\ call.m0 = Mat22(1, 2, 3, 4) /\ call.sM = 3) =>
           call.m = Mat22(4, 2, 3, 7)
    /\ (call.pc = "m-=") =>
           diagOnly(call.m, [i \in 1..2 |-> [j \in 1..2 |->
                                call.m0[i][j] + (IF i = j THEN call.sM ELSE 0)]],
                    -1, 1, call.sM)
    /\ (call.pc = "m op s") =>
           /\ diagOnly(call.res[1], call.m, -1, 1, call.sB)
           /\ diagOnly(call.res[2], call.m, 1, 1, call.sB)
           /\ diagOnly(call.res[3], call.m, 1, -1, call.sB)
           /\ diagOnly(call.res[4], call.m, 1, 1, call.sB)
    /\ (call.pc = "m op s" /\ call.m = Mat22(1, 2, 3, 4) /\ call.sB = 1) =>
           call.res[3] = Mat22(0, -2, -3, -3)

C14_Witness ==
    /\ call.pc = "m op s"
    /\ call.m = Mat22(1, 2, 3, 4)
    /\ call.sB = 1
    /\ call.res = << Mat22(0, 2, 3, 3), Mat22(2, 2, 3, 5), Mat22(0, -2, -3, -3),
                     Mat22(2, 2, 3, 5) >>
    /\ call.ok

C16_ImpendingOnlyFromRolling ==
    [][(pc = "project") =>
          \A k \in 1..Len(uniContact) :
              (/\ uniContact'[k].m_frictionCond = "Impending"
               /\ uniContact[k].m_frictionCond # "Impending") =>
                  /\ hasFriction(uniContact[k])
                  /\ uniContact[k].m_contactCond # "UniOff"
                  /\ uniContact[k].m_frictionCond = "Rolling"]_vars

\* C17: in every sliding interval the active-set loop terminates after a
\* number of iterations bounded by the number of participating normals plus
\* the number of frictional contacts plus one.
activeSetBound ==
    Cardinality({ k \in 1..Len(uniContact) : uniContact[k].m_type = "Participating" })
    + Cardinality({ k \in 1..Len(uniContact) : hasFriction(uniContact[k]) }) + 1

C17_ActiveSetLoopBounded ==
    (pc \in {"activeset", "newton", "linesearch", "project"}) => its <= activeSetBound

\* C18: wherever m_mult2active is read (Newton initialization, residual and
\* Jacobian evaluation, projection, pruning) it is the exact inverse of
\* m_active: mult2active[active[a]] = a, and invalid for a multiplier that is
\* not active; it is rebuilt before any read that follows an erasure.
C18_Mult2ActiveIsInverse ==
    (pc \in {"newton", "linesearch", "project"}) =>
        /\ Len(m_mult2active) = m
        /\ \A a \in 1..Len(m_active) : m_mult2active[m_active[a]] = a
        /\ \A i \in 1..m :
               (\A a \in 1..Len(m_active) : m_active[a] # i) => m_mult2active[i] = 0

\* after an erasure, with something still active
C18_Witness ==
    /\ pc = "project"
    /\ its > 1
    /\ Len(m_active) > 0
    /\ Len(m_active) < Len(participating)
    /\ \E i \in 1..m : m_mult2active[i] = 0

\* C19, as stated: m_active holds pairwise distinct multiplier indices, has
\* size na <= m, and is a subsequence of participating (same relative order),
\* also after any number of prunings.
posIn(seq, x) == CHOOSE i \in 1..Len(seq) : seq[i] = x

activeDistinct == \A a, b \in 1..Len(m_active) : a # b => m_active[a] # m_active[b]

activeWithin == \A a \in 1..Len(m_active) : isParticipating(m_active[a])

C19_ActiveSubsequence ==
    /\ activeDistinct
    /\ Len(m_active) <= m
    /\ activeWithin
    /\ \A a, b \in 1..Len(m_active) :
           a < b => posIn(participating, m_active[a]) < posIn(participating, m_active[b])

\* C19, amended: m_active holds pairwise distinct multiplier indices, has
\* size na <= m, and every element of it is in participating; the order may
\* differ from that of participating after an erasure.
C19_ActiveDistinctSubset ==
    /\ activeDistinct
    /\ Len(m_active) <= m
    /\ Len(m_active) <= Len(participating)
    /\ activeWithin

C19_Witness ==
    /\ participating = <<1, 2, 3>>
    /\ m_active = <<3, 2>>
    /\ uniContact[1].m_contactCond = "UniOff"
    /\ pc = "project"

\* C20: when the pruning step releases a uni-contact normal, the contact
\* becomes UniOff and active loses exactly Nk (frictionless) or exactly Nk,
\* Fk[0], Fk[1] (frictional): every other active multiplier stays in active
\* exactly once and |active| drops by 1 or 3, wherever the removed indices sat.
released(rt) == {rt.m_Nk} \cup { rt.m_Fk[i] : i \in 1..Len(rt.m_Fk) }

countIn(seq, x) == Cardinality({ i \in 1..Len(seq) : seq[i] = x })

C20_ReleaseRemovesExactly ==
    [][\A k \in 1..Len(uniContact) :
          (/\ pc = "project"
           /\ uniContact[k].m_contactCond # "UniOff"
           /\ uniContact'[k].m_contactCond = "UniOff") =>
              /\ Len(m_active') = Len(m_active) - (IF hasFriction(uniContact[k]) THEN 3 ELSE 1)
              /\ \A x \in released(uniContact[k]) :
                     countIn(m_active, x) = 1 /\ countIn(m_active', x) = 0
              /\ \A x \in 1..m :
                     (x \notin released(uniContact[k]) /\ countIn(m_active, x) > 0) =>
                         countIn(m_active', x) = 1]_vars

\* a frictional contact released with the unconditional multiplier left
C20_Witness ==
    /\ pc = "activeset"
    /\ its > 1
    /\ participating = <<1, 2, 3, 4>>
    /\ Len(uniContact) = 1
    /\ hasFriction(uniContact[1])
    /\ uniContact[1].m_contactCond = "UniOff"
    /\ m_active = <<4>>

\* C21: when the worst violation is a uni-contact normal whose contact has
\* Rolling friction, the normal is not released in that iteration: the
\* contact stays UniActive, m_active is unchanged and that contact becomes
\* Impending.  A normal is released only when its contact has no friction or
\* friction that is not Rolling, and then no friction condition changes.
normalIsWorst ==
    worstValue(uniNormalErr(uniContact, m_mult2active, m_piActive))
        > worstValue(fricErr(uniContact, m_mult2active, piELeft, m_piActive))

worstNormal == worstIndex(uniNormalErr(uniContact, m_mult2active, m_piActive))

C21_RollingGoesBeforeNormal ==
    [][(pc = "project" /\ pc' = "activeset") =>
          /\ (/\ normalIsWorst
               /\ hasFriction(uniContact[worstNormal])
               /\ uniContact[worstNormal].m_frictionCond = "Rolling") =>
                  /\ uniContact'[worstNormal].m_contactCond = "UniActive"
                  /\ m_active' = m_active
                  /\ uniContact'[worstNormal].m_frictionCond = "Impending"
          /\ \A k \in 1..Len(uniContact) :
                 (/\ uniContact[k].m_contactCond # "UniOff"
                  /\ uniContact'[k].m_contactCond = "UniOff") =>
                     /\ normalIsWorst /\ k = worstNormal
                     /\ ~hasFriction(uniContact[k])
                            \/ uniContact[k].m_frictionCond # "Rolling"
                     /\ \A j \in 1..Len(uniContact) :
                            uniContact'[j].m_frictionCond = uniContact[j].m_frictionCond]_vars

\* a Rolling contact whose pulling normal was the worst offender: now
\* Impending, still UniActive, nothing erased
C21_Witness ==
    /\ pc = "activeset"
    /\ its = 2
    /\ Len(uniContact) = 1
    /\ uniContact[1].m_type = "Participating"
    /\ uniContact[1].m_contactCond = "UniActive"
    /\ uniContact[1].m_frictionCond = "Impending"
    /\ m_active = participating
    /\ piGuess[uniContact[1].m_Nk] = 0
    /\ \E ai \in 1..Len(m_piActive) :
           /\ m_active[ai] = uniContact[1].m_Nk
           /\ uniContact[1].m_sign * m_piActive[ai] > 0

\* C22, as stated: the line search starts at frac = 1, evaluates
\* piActive = piSave - frac*dpi, accepts the first fraction whose residual
\* norm is strictly less than the norm before the step, halves frac after a
\* failed trial, and gives up exactly when frac < MinFrac*SearchReduceFac
\* (= 0.005).
trialDone == pc = "linesearch" /\ pc' # "offgrid"

trialFailed == trialDone /\ normSq(uniContact', m_mult2active, m_errActive') >= errNorm

trialAt(f) ==
    \A ai \in 1..Len(piSave) : LSDen * m_piActive'[ai] = LSDen * piSave[ai] - f * dpi[ai]

lineSearchBasics ==
    /\ (pc = "newton" /\ pc' = "linesearch") => (fracLS' = LSDen /\ piSave' = m_piActive)
    /\ trialDone => trialAt(fracLS)
    /\ (trialDone /\ ~trialFailed) =>
           /\ pc' # "linesearch"
           /\ errNorm' = normSq(uniContact', m_mult2active, m_errActive')
           /\ fracLS' = fracLS
    /\ trialFailed => 2 * fracLS' = fracLS

C22_StuckBelowMinFracTimesFac ==
    [][/\ lineSearchBasics
       /\ trialFailed => ((pc' # "linesearch") <=> (fracLS' * 200 < LSDen))]_vars

\* C22, amended: as above, but the search gives up exactly when, after the
\* halving, frac*SearchReduceFac < MinFrac (frac < 0.02): the fractions
\* tried are 1, 1/2, ..., 1/32, and the step kept is the one evaluated at
\* the fraction before the last halving.
C22_StuckWhenHalfBelowMinFrac ==
    [][/\ lineSearchBasics
       /\ trialFailed =>
              /\ (pc' # "linesearch") <=> (fracLS' * 100 < 2 * LSDen)
              /\ (pc' # "linesearch") =>
                     errNorm' = normSq(uniContact', m_mult2active, m_errActive')
       /\ trialDone => fracLS * 32 >= LSDen]_vars

\* the search has given up after six trials: frac is 1/64 and the step kept
\* is the trial at 1/32, whose norm is no smaller than before the step
C22_Witness ==
    /\ pc \in {"newton", "project"}
    /\ newtIter > 0
    /\ fracLS = 1
    /\ LSDen = 64
    /\ \A ai \in 1..Len(piSave) : 32 * m_piActive[ai] = 32 * piSave[ai] - dpi[ai]
    /\ errNorm = normSq(uniContact, m_mult2active, m_errActive)
    /\ errNorm > 0

\* C23: in every active-set iteration the number of Newton iterations is at
\* most m_maxIters, for every m_maxIters >= 0, and zero when the initial
\* residual norm is within m_convergenceTol; the Newton loop ends only when
\* the norm is within the tolerance or the cap is reached, and solve then
\* goes on to the projection step without raising an error.
C23_NewtonIterCap ==
    /\ (pc \in {"newton", "linesearch", "project"}) => newtIter <= m_maxIters
    /\ (pc = "project") => (BelowTol(errNorm) \/ newtIter >= m_maxIters)
    /\ (pc = "project" /\ newtIter = 0) => BelowTol(errNorm)

\* C24: on return from solve with non-empty participating and D = 0, for
\* every multiplier i, verr_out[i] = verr_in[i] - sum_j A(i,j)*pi[j]
\* - sum_{j in expanding} A(i,j)*piExpand[j], where pi is the sum over the
\* intervals of frac_k times the scattered active solution of interval k,
\* whatever the number of intervals and the fractions; and at exit piELeft
\* is zero on every expanding index.
isExpanding(j) == \E x \in 1..Len(expanding) : expanding[x] = j

scattered(active, colActive, i) ==
    SumSeq([a \in 1..Len(active) |-> IF active[a] = i THEN colActive[a] ELSE 0])

C24_VerrAccounting ==
    [][/\ (pc = "fraction" /\ pc' = "interval") =>
              \A i \in 1..m :
                  frac'.d * piTotal'[i]
                      = frac'.d * piTotal[i] + frac'.n * scattered(m_active, m_piActive, i)
       /\ (pc = "interval" /\ pc' = "done") =>
              /\ pi' = piTotal
              /\ \A i \in 1..m :
                     verr'[i] = entry.verr[i]
                                - SumSeq([j \in 1..m |-> A[i][j] * pi'[j]])
                                - SumSeq([j \in 1..m |->
                                             IF isExpanding(j)
                                             THEN A[i][j] * entry.piExpand[j] ELSE 0])
              /\ \A j \in 1..m : isExpanding(j) => piELeft'[j] = 0]_vars

\* a return after more than one interval, with an expansion impulse that
\* changes verr and a nonzero solution
C24_Witness ==
    /\ Returned
    /\ Len(participating) > 0
    /\ interval > 1
    /\ \E i \in 1..m : pi[i] # 0
    /\ \E i \in 1..m :
           SumSeq([j \in 1..m |-> IF isExpanding(j)
                                    THEN A[i][j] * entry.piExpand[j] ELSE 0]) # 0

\* C25: after every projection step piGuess holds only admissible values:
\* lb <= piGuess[ix] <= ub for every bounded constraint; sign*piGuess[Nk] <= 0
\* for every UniActive normal and piGuess[Nk] = 0 for every UniOff or
\* UniKnown normal; and for every frictional contact that is not UniOff the
\* magnitude of piGuess[Fk] is at most mu*|piGuess[Nk] + piELeft[Nk]|,
\* whatever its friction condition.
boundedAdmissible(g) ==
    \A k \in 1..Len(bounded) :
        bounded[k].m_lb <= g[bounded[k].m_ix] /\ g[bounded[k].m_ix] <= bounded[k].m_ub

normalAdmissible(uc, g) ==
    \A k \in 1..Len(uc) :
        /\ uc[k].m_contactCond = "UniActive" => uc[k].m_sign * g[uc[k].m_Nk] <= 0
        /\ uc[k].m_contactCond \in {"UniOff", "UniKnown"} => g[uc[k].m_Nk] = 0

frictionAdmissible(uc, g) ==
    \A k \in 1..Len(uc) :
        (hasFriction(uc[k]) /\ uc[k].m_contactCond # "UniOff") =>
            square(g[uc[k].m_Fk[1]]) + square(g[uc[k].m_Fk[2]])
                <= square(uc[k].m_effMu * (g[uc[k].m_Nk] + piELeft[uc[k].m_Nk]))

C25_GuessAdmissible ==
    [][(pc = "project" /\ pc' \in {"fraction", "activeset"}) =>
          /\ boundedAdmissible(piGuess')
          /\ normalAdmissible(uniContact', piGuess')
          /\ frictionAdmissible(uniContact', piGuess')]_vars

\* C26: in every state of solve after classification a Sliding contact has
\* m_slipMag > m_maxRollingTangVel, and its m_slipVel and m_slipMag are those
\* the classification of the current interval gave it (only Impending
\* contacts have their slip direction recomputed), so the "misclassified as
\* Sliding" check of the interval-fraction step cannot fire.
withinInterval == pc \in {"activeset", "newton", "linesearch", "project", "fraction"}

C26_SlidingKeepsClassification ==
    [][/\ (interval' > 0) =>
              \A k \in 1..Len(uniContact') :
                  uniContact'[k].m_frictionCond = "Sliding" =>
                      uniContact'[k].m_slipMag > m_maxRollingTangVel
       /\ withinInterval =>
              \A k \in 1..Len(uniContact) :
                  uniContact'[k].m_frictionCond = "Sliding" =>
                      /\ uniContact[k].m_frictionCond = "Sliding"
                      /\ uniContact'[k].m_slipVel = uniContact[k].m_slipVel
                      /\ uniContact'[k].m_slipMag = uniContact[k].m_slipMag
       /\ withinInterval =>
              \A k \in 1..Len(uniContact) :
                  uniContact[k].m_frictionCond = "Sliding" =>
                      /\ hasFriction(uniContact[k])
                      /\ uniContact[k].m_slipVel = <<m_verrLeft[uniContact[k].m_Fk[1]],
                                                      m_verrLeft[uniContact[k].m_Fk[2]]>>
                      /\ square(uniContact[k].m_slipMag)
                             = square(uniContact[k].m_slipVel[1])
                               + square(uniContact[k].m_slipVel[2])]_vars

\* the interval-fraction step reached with a Sliding contact after Newton
\* has moved the impulse, in a second or later interval
C26_Witness ==
    /\ pc = "fraction"
    /\ interval > 1
    /\ newtIter > 0
    /\ \E k \in 1..Len(uniContact) :
           /\ uniContact[k].m_frictionCond = "Sliding"
           /\ uniContact[k].m_slipMag > m_maxRollingTangVel
           /\ \E ai \in 1..Len(m_piActive) : m_piActive[ai] # 0

====
